---- MODULE Spec2Model ----
(***************************************************************************)
(* Model of job_search_selenium.py: the scheduled scrape / dedup / persist *)
(* pipeline (WebDriverManager, GoogleSheetsManager, JobSearchOrchestrator  *)
(* and the scheduling loop of main).                                       *)
(*                                                                         *)
(* External collaborators (Chrome driver, Google Sheets) are modelled by   *)
(* their observable outcome: every call into them either succeeds or       *)
(* raises, chosen nondeterministically.  The worksheet is a sequence of    *)
(* rows, a row a sequence of cell strings.                                 *)
(***************************************************************************)
EXTENDS Integers, Sequences, FiniteSets, TLC

\* ------------------------------------------------------------------ bounds
\* Number of runs (startup run + scheduled runs) of one process explored.
MaxRuns == 3
\* Largest number of postings one scraper returns from one search_jobs call.
MaxFound == 1
\* Longest batch handed to save_jobs when the manager is driven directly.
MaxBatch == 2

\* Links of postings the job sites can show.
Links == {"u1", "u2"}

\* ------------------------------------------------------- program constants
\* scrapers = [LinkedInScraper(driver), GlassdoorScraper(driver), XINGScraper(driver)]
Scrapers == <<"LinkedInScraper", "GlassdoorScraper", "XINGScraper">>

\* The source tag each scraper writes into the postings it builds.
SourceOf(scraper) ==
    CASE scraper = "LinkedInScraper" -> "LinkedIn"
      [] scraper = "GlassdoorScraper" -> "Glassdoor"
      [] OTHER -> "XING"

Sources == {SourceOf(Scrapers[i]) : i \in 1..Len(Scrapers)}

\* JobPosting reduced to the fields that decide deduplication and identify
\* the candidate (title, company, location, languages and date_posted are
\* carried through save_jobs unchanged and are fixed in the row).
JobPosting == [link : Links, source : Sources]

\* headers of _setup_headers
headers == <<"Data Cadastro", "Titulo", "Empresa", "Localizacao", "Idiomas",
             "Link", "Data Publicacao", "Fonte">>

\* link_column_index = 5  (column F, 0-based)
link_column_index == 5

\* Python's row[i] with a 0-based index, on a 1-based sequence.
PyIndex(row, i) == row[i + 1]

\* ------------------------------------------------- GoogleSheetsManager
\* The row save_jobs builds for one posting (lines 133-137).
Row(job) == <<"ts", "title", "company", "location", "langs", job.link,
              "date", job.source>>

\* `job.link not in self._existing_links` (line 132)
NotKnownAlways(job, known) == TRUE
NotKnown(job, known) == job.link \notin known

\* `self._existing_links.add(job.link)` (line 139)
AddLinkForgot(known, job) == known
AddLink(known, job) == known \cup {job.link}

\* The loop of save_jobs (lines 130-139): the rows staged in new_jobs.
RECURSIVE StageRows(_, _)
StageRows(jobs, known) ==
    IF jobs = <<>> THEN <<>>
    ELSE IF NotKnown(Head(jobs), known)
         THEN <<Row(Head(jobs))>> \o StageRows(Tail(jobs), AddLink(known, Head(jobs)))
         ELSE StageRows(Tail(jobs), known)

\* The loop of save_jobs (lines 130-139): _existing_links after the loop.
RECURSIVE LinksAfter(_, _)
LinksAfter(jobs, known) ==
    IF jobs = <<>> THEN known
    ELSE IF NotKnown(Head(jobs), known)
         THEN LinksAfter(Tail(jobs), AddLink(known, Head(jobs)))
         ELSE LinksAfter(Tail(jobs), known)

\* `len(row) > link_column_index` (line 126)
HasLinkColumnOffByOne(row) == Len(row) >= link_column_index
HasLinkColumn(row) == Len(row) > link_column_index

\* `all_values[1:]` (line 126): the rows after the first one.
DataRows(all_values) == SubSeq(all_values, 2, Len(all_values))

\* The set comprehension of line 126 raises IndexError when a row passes the
\* filter and has no cell at link_column_index.
ComprehensionRaises(all_values) ==
    \E i \in 1..Len(DataRows(all_values)) :
        /\ HasLinkColumn(DataRows(all_values)[i])
        /\ Len(DataRows(all_values)[i]) < link_column_index + 1

\* The set built by the comprehension of line 126.
LoadedLinks(all_values) ==
    {PyIndex(DataRows(all_values)[i], link_column_index) :
        i \in {j \in 1..Len(DataRows(all_values)) :
                  /\ HasLinkColumn(DataRows(all_values)[j])
                  /\ Len(DataRows(all_values)[j]) >= link_column_index + 1}}

\* `if len(all_values) > 1` (line 124)
HasDataRows(all_values) == Len(all_values) > 1

\* _load_existing_links (lines 122-127) on the rows get_all_values returned:
\* whether it raises, and the value of _existing_links it leaves.
load_existing_links(all_values, known) ==
    IF HasDataRows(all_values)
    THEN IF ComprehensionRaises(all_values)
         THEN [raised |-> TRUE, links |-> known]
         ELSE [raised |-> FALSE, links |-> LoadedLinks(all_values)]
    ELSE [raised |-> FALSE, links |-> known]


\* ------------------------------------------------------------ JobScraper
\* A Python str is a sequence of one-character strings.
UpperLetters == <<"A", "B", "C", "D", "E", "F", "G", "H", "I", "J", "K", "L", "M", "N", "O", "P", "Q", "R", "S", "T", "U", "V", "W", "X", "Y", "Z">>
LowerLetters == <<"a", "b", "c", "d", "e", "f", "g", "h", "i", "j", "k", "l", "m", "n", "o", "p", "q", "r", "s", "t", "u", "v", "w", "x", "y", "z">>

\* str.lower() on one character.
LowerChar(c) ==
    IF \E i \in DOMAIN UpperLetters : UpperLetters[i] = c
    THEN LowerLetters[CHOOSE i \in DOMAIN UpperLetters : UpperLetters[i] = c]
    ELSE c

\* str.lower()
Lower(str) == [i \in 1..Len(str) |-> LowerChar(str[i])]

\* Python's `sub in str` on strings.
IsIn(sub, str) ==
    \E i \in 0..(Len(str) - Len(sub)) : SubSeq(str, i + 1, i + Len(sub)) = sub

\* Python's any(term in str for term in terms).
AnyIn(terms, str) == \E i \in DOMAIN terms : IsIn(terms[i], str)

\* EXPERIENCE_LEVELS (line 51)
EXPERIENCE_LEVELS ==
    <<<<"j", "u", "n", "i", "o", "r">>,
      <<"e", "n", "t", "r", "y">>,
      <<"g", "r", "a", "d", "u", "a", "t", "e">>,
      <<"t", "r", "a", "i", "n", "e", "e">>,
      <<"p", "r", "a", "k", "t", "i", "k", "u", "m">>,
      <<"w", "e", "r", "k", "s", "t", "u", "d", "e", "n", "t">>>>

\* EXCLUDE_TERMS (line 52)
EXCLUDE_TERMS ==
    <<<<"p", "r", "o", "j", "e", "c", "t", " ", "m", "a", "n", "a", "g", "e", "r">>,
      <<"s", "e", "n", "i", "o", "r">>,
      <<"l", "e", "a", "d">>,
      <<"p", "r", "i", "n", "c", "i", "p", "a", "l">>,
      <<"d", "i", "r", "e", "c", "t", "o", "r">>,
      <<"h", "e", "a", "d", " ", "o", "f">>,
      <<"d", "e", "v", "e", "l", "o", "p", "e", "r">>>>

\* ["senior", "lead", "principal"] (line 158)
SeniorTerms ==
    <<<<"s", "e", "n", "i", "o", "r">>,
      <<"l", "e", "a", "d">>,
      <<"p", "r", "i", "n", "c", "i", "p", "a", "l">>>>

\* `title_lower = title.lower()` (line 154)
TitleLowerForgot(title) == title
TitleLower(title) == Lower(title)

\* `is_junior or not any(...)` (line 158)
JuniorAndNotSenior(is_junior, has_senior) == is_junior /\ ~has_senior
JuniorOrNotSenior(is_junior, has_senior) == is_junior \/ ~has_senior

\* is_relevant_job (lines 153-158)
is_relevant_job(title) ==
    LET title_lower == TitleLower(title)
    IN  IF AnyIn(EXCLUDE_TERMS, title_lower)
        THEN FALSE
        ELSE JuniorOrNotSenior(AnyIn(EXPERIENCE_LEVELS, title_lower),
                               AnyIn(SeniorTerms, title_lower))

\* patterns (line 163), in the order the dict is iterated.
patterns ==
    << [lang |-> "English", terms |-> <<<<"e", "n", "g", "l", "i", "s", "h">>, <<"e", "n", "g", "l", "i", "s", "c", "h">>>>],
       [lang |-> "German",  terms |-> <<<<"g", "e", "r", "m", "a", "n">>, <<"d", "e", "u", "t", "s", "c", "h">>>>] >>

\* The loop of lines 164-166 over patterns[k..]: the tags appended.
RECURSIVE MatchedFrom(_, _)
MatchedFrom(k, text_lower) ==
    IF k > Len(patterns) THEN <<>>
    ELSE (IF AnyIn(patterns[k].terms, text_lower) THEN <<patterns[k].lang>> ELSE <<>>)
            \o MatchedFrom(k + 1, text_lower)

\* `languages if languages else ['Not specified']` (line 167)
OrEmpty(langs) == langs
OrNotSpecified(langs) == IF langs # <<>> THEN langs ELSE <<"Not specified">>

\* extract_languages (lines 160-167)
extract_languages(text) == OrNotSpecified(MatchedFrom(1, Lower(text)))

\* ------------------------------------------------------------------- state
VARIABLES
    pc,              \* position of main / run_search
    runs,            \* number of runs started by this process
    mgr_driver,      \* WebDriverManager.driver (0 is None, else a driver id)
    started,         \* number of Chrome drivers created so far
    live,            \* drivers created on which quit() has not taken effect
    quit_calls,      \* the drivers quit() was invoked on, in order
    driver,          \* local `driver` of run_search (0 is None)
    worksheet,       \* GoogleSheetsManager.worksheet is set (not None)
    existing_links,  \* GoogleSheetsManager._existing_links
    store,           \* the spreadsheet: whether sheet 'Vagas' exists, its rows
    next_scraper,    \* index of the scraper the for loop of run_search is at
    all_jobs,        \* local `all_jobs` of run_search
    calls,           \* calls made by the current run, in order
    found,           \* what each scraper invoked in the current run produced
    res,             \* outcome of each step of the current run
    batch,           \* argument of the last save_jobs call
    new_jobs,        \* local `new_jobs` of the last save_jobs call
    appended,        \* rows the last save_jobs call persisted
    links_before,    \* _existing_links on entry of the last save_jobs call
    rows_before,     \* rows of the sheet on entry of the last save_jobs call
    last_op,         \* last GoogleSheetsManager method called
    repeat,          \* the last save_jobs call repeated the call before it
    prev_new,        \* new_jobs of the call that the last call repeated
    text_in,         \* argument of the last is_relevant_job / extract_languages call
    text_op,         \* which of the two was called last
    relevant,        \* result of the last is_relevant_job call
    languages,       \* result of the last extract_languages call
    shown            \* what the job sites showed to the search_jobs calls

mgr_vars  == <<worksheet, existing_links, store>>
save_vars == <<batch, new_jobs, appended, links_before, rows_before>>
unit_vars == <<last_op, repeat, prev_new>>
drv_vars  == <<mgr_driver, started, live, quit_calls, driver>>
run_vars  == <<pc, runs, next_scraper, all_jobs, calls, found, res>>
text_vars == <<text_in, text_op, relevant, languages>>
aux_vars  == <<text_vars, shown>>
vars == <<mgr_vars, save_vars, unit_vars, drv_vars, run_vars, aux_vars>>

\* ------------------------------------------------------------- first state
\* Contents of the spreadsheet when the process starts: sheet missing, sheet
\* without rows, header only, header with data rows, and tables with short
\* rows (2 and 5 cells) and a row that ends at the link column (6 cells).
ShortRow == <<"ts", "title">>
FiveCells == <<"ts", "title", "company", "location", "langs">>
SixCells(l) == <<"ts", "title", "company", "location", "langs", l>>

InitStores ==
    { [exists |-> FALSE, rows |-> <<>>],
      [exists |-> TRUE,  rows |-> <<>>],
      [exists |-> TRUE,  rows |-> <<headers>>],
      [exists |-> TRUE,  rows |-> <<headers, ShortRow,
                                    Row([link |-> "u1", source |-> "LinkedIn"])>>],
      [exists |-> TRUE,  rows |-> <<headers, FiveCells, SixCells("u2")>>] }

NoRes == [start |-> "none", connect |-> "none", load |-> "none",
          save |-> "none", quit |-> "none", critical |-> FALSE]

\* After `orchestrator = JobSearchOrchestrator()` (line 358).
Init ==
    /\ pc = "idle"
    /\ runs = 0
    /\ mgr_driver = 0
    /\ started = 0
    /\ live = {}
    /\ quit_calls = <<>>
    /\ driver = 0
    /\ worksheet = FALSE
    /\ existing_links = {}
    /\ store \in InitStores
    /\ next_scraper = 1
    /\ all_jobs = <<>>
    /\ calls = <<>>
    /\ found = <<>>
    /\ res = NoRes
    /\ batch = <<>>
    /\ new_jobs = <<>>
    /\ appended = <<>>
    /\ links_before = {}
    /\ rows_before = <<>>
    /\ last_op = "none"
    /\ repeat = FALSE
    /\ prev_new = <<>>
    /\ text_in = <<>>
    /\ text_op = "none"
    /\ relevant = FALSE
    /\ languages = <<>>
    /\ shown = <<>>

\* --------------------------------------------- GoogleSheetsManager methods
ConnectOutcomes == {"open_raises", "worksheet_raises", "append_row_raises",
                    "get_all_values_raises", "ok"}

\* The sheet after lines 110-114 succeeded: found, or created with headers.
Opened(st) == IF st.exists THEN st ELSE [exists |-> TRUE, rows |-> <<headers>>]

\* connect (lines 104-116) ending with outcome o: its effect on the manager
\* and the spreadsheet.
connect(o) ==
    \/ /\ o = "open_raises"               \* lines 107-109 raise
       /\ UNCHANGED mgr_vars
    \/ /\ o = "worksheet_raises"          \* sheet.worksheet / add_worksheet raises
       /\ UNCHANGED mgr_vars
    \/ /\ o = "append_row_raises"         \* _setup_headers raises (line 120)
       /\ ~store.exists
       /\ worksheet' = TRUE
       /\ store' = [exists |-> TRUE, rows |-> <<>>]
       /\ UNCHANGED existing_links
    \/ /\ o = "get_all_values_raises"     \* line 123 raises
       /\ worksheet' = TRUE
       /\ store' = Opened(store)
       /\ UNCHANGED existing_links
    \/ /\ o = "ok"
       /\ worksheet' = TRUE
       /\ store' = Opened(store)
       /\ existing_links' = load_existing_links(Opened(store).rows, existing_links).links

\* Whether _load_existing_links ran in connect(o), and how it ended.
LoadResult(o) ==
    IF o # "ok" THEN "none"
    ELSE IF load_existing_links(Opened(store).rows, existing_links).raised
         THEN "raised" ELSE "ok"

ConnectRaised(o) == o # "ok" \/ LoadResult(o) = "raised"

\* The store calls connect(o) made, in order.
ConnectCalls(o) ==
    CASE o = "open_raises" -> <<"open_by_key">>
      [] o = "worksheet_raises" ->
            IF store.exists THEN <<"open_by_key", "worksheet">>
            ELSE <<"open_by_key", "worksheet", "add_worksheet">>
      [] o = "append_row_raises" ->
            <<"open_by_key", "worksheet", "add_worksheet", "append_row">>
      [] OTHER ->
            IF store.exists THEN <<"open_by_key", "worksheet", "get_all_values">>
            ELSE <<"open_by_key", "worksheet", "add_worksheet", "append_row",
                   "get_all_values">>

\* save_jobs (lines 129-144) on `jobs`, the append succeeding iff append_ok:
\* its effect on the manager and the spreadsheet, and what it staged.
save_jobs(jobs, append_ok) ==
    /\ batch' = jobs
    /\ links_before' = existing_links
    /\ rows_before' = store.rows
    /\ new_jobs' = StageRows(jobs, existing_links)
    /\ existing_links' = LinksAfter(jobs, existing_links)
    /\ appended' = IF append_ok THEN new_jobs' ELSE <<>>
    /\ store' = [store EXCEPT !.rows = @ \o appended']
    /\ UNCHANGED worksheet

\* save_jobs raises iff it issued append_rows and append_rows raised.
SaveRaised(jobs, append_ok) == StageRows(jobs, existing_links) # <<>> /\ ~append_ok


\* ---------------------------------------- GoogleSheetsManager driven alone
BoundedSeq(S, n) == UNION {[1..k -> S] : k \in 0..n}

\* The postings handed to save_jobs when the manager is driven alone: every
\* link, from two of the sources (the source plays no part in save_jobs and
\* only tells two postings with the same link apart).
UnitPostings == [link : Links, source : {"LinkedIn", "XING"}]

\* connect() called on the manager.
MgrConnect ==
    \E o \in ConnectOutcomes :
        /\ connect(o)
        /\ LoadResult(o) # "raised"
        /\ last_op' = "connect"
        /\ repeat' = FALSE
        /\ prev_new' = <<>>
        /\ UNCHANGED <<save_vars, drv_vars, run_vars, aux_vars>>

\* save_jobs(jobs) called on the connected manager.
MgrSave ==
    \E jobs \in BoundedSeq(UnitPostings, MaxBatch), append_ok \in BOOLEAN :
        /\ worksheet
        /\ save_jobs(jobs, append_ok)
        /\ last_op' = "save_jobs"
        /\ repeat' = (last_op = "save_jobs" /\ batch = jobs)
        /\ prev_new' = IF repeat' THEN new_jobs ELSE <<>>
        /\ UNCHANGED <<drv_vars, run_vars, aux_vars>>

NextStore == MgrConnect \/ MgrSave

SpecStore == Init /\ [][NextStore]_vars

\* ------------------------------------------- the text classifier driven alone
\* Number of fragments a title or text is put together from.
MaxParts == 2

\* Fragments of titles and texts: exclusion, junior and language terms in
\* mixed case, a phrase split over two fragments ("Head" + " of "), a term
\* inside a longer word ("Misleading", "Germany"), and neutral words.
Fragments ==
    { <<"S", "e", "n", "i", "o", "r", " ">>,
      <<"L", "E", "A", "D">>,
      <<"d", "e", "v", "e", "l", "o", "p", "e", "r">>,
      <<"H", "e", "a", "d">>,
      <<" ", "o", "f", " ">>,
      <<"P", "r", "o", "j", "e", "c", "t", " ", "M", "a", "n", "a", "g", "e", "r">>,
      <<"J", "u", "n", "i", "o", "r", " ">>,
      <<"T", "R", "A", "I", "N", "E", "E">>,
      <<"D", "a", "t", "a", " ", "A", "n", "a", "l", "y", "s", "t">>,
      <<"M", "i", "s", "l", "e", "a", "d", "i", "n", "g">>,
      <<"E", "n", "g", "l", "i", "s", "h">>,
      <<"D", "e", "u", "t", "s", "c", "h", " ">>,
      <<"G", "e", "r", "m", "a", "n", "y">> }

RECURSIVE Concat(_)
Concat(parts) == IF parts = <<>> THEN <<>> ELSE Head(parts) \o Concat(Tail(parts))

Texts == {Concat(parts) : parts \in BoundedSeq(Fragments, MaxParts)}

\* is_relevant_job(title) called on a scraper (the functions keep no state,
\* so one call from the first state covers every call).
IsRelevantJob ==
    \E title \in Texts :
        /\ text_op = "none"
        /\ text_in' = title
        /\ text_op' = "is_relevant_job"
        /\ relevant' = is_relevant_job(title)
        /\ languages' = <<>>
        /\ UNCHANGED <<mgr_vars, save_vars, unit_vars, drv_vars, run_vars, shown>>

\* extract_languages(text) called on a scraper.
ExtractLanguages ==
    \E text \in Texts :
        /\ text_op = "none"
        /\ text_in' = text
        /\ text_op' = "extract_languages"
        /\ languages' = extract_languages(text)
        /\ relevant' = FALSE
        /\ UNCHANGED <<mgr_vars, save_vars, unit_vars, drv_vars, run_vars, shown>>

NextText == IsRelevantJob \/ ExtractLanguages

SpecText == Init /\ [][NextText]_vars

\* ------------------------------------------------ search_jobs of a scraper
\* SEARCH_TERMS[:3] (lines 178, 216, 255): the number of terms searched.
NumTerms == 3
\* job_cards[:20] (lines 190, 229, 262): the cards looked at on one page.
CardCap == 20

\* Most cards the site shows over the pages of one search_jobs call.
MaxCards == 2

\* Titles on the cards of a site: one that is relevant, one that is excluded.
RelevantTitle == <<"J", "u", "n", "i", "o", "r", " ", "D", "a", "t", "a", " ", "A", "n", "a", "l", "y", "s", "t">>
ExcludedTitle == <<"S", "e", "n", "i", "o", "r", " ", "D", "e", "v", "e", "l", "o", "p", "e", "r">>
CardTitles == {RelevantTitle, ExcludedTitle}

\* A listing element of a results page: its title and link, and whether
\* reading one of its fields raises (missing field, stale element).
Cards(links) == [title : CardTitles, link : links, broken : BOOLEAN]

\* `except Exception: continue` around one card (lines 205-206, 244-245, 278-279).
CardErrorEscapes == FALSE
CardErrorCaught == TRUE

\* `except Exception as e: logger.error(...)` around one term (lines 207-208,
\* 246-247, 280-281).
TermErrorEscapes == FALSE
TermErrorCaught == TRUE

\* `if not self.is_relevant_job(title): continue` (lines 193-194, 232-233, 266-267)
KeepEveryTitle(title) == TRUE
KeepTitle(title) == is_relevant_job(title)

\* The outcome of that test for each title the cards carry.
KeptTitles == [title \in CardTitles |-> KeepTitle(title)]

\* The posting built from a card (lines 200-204, 239-243, 273-277).
PostingOf(scraper, card) == [link |-> card.link, source |-> SourceOf(scraper)]

\* The loop over the cards of one page, `jobs` being the list so far: the
\* list afterwards, and whether an exception left the loop.
RECURSIVE ProcessCards(_, _, _)
ProcessCards(scraper, cards, jobs) ==
    IF cards = <<>> THEN [jobs |-> jobs, error |-> FALSE]
    ELSE IF Head(cards).broken
         THEN IF CardErrorCaught
              THEN ProcessCards(scraper, Tail(cards), jobs)
              ELSE [jobs |-> jobs, error |-> TRUE]
         ELSE IF KeptTitles[Head(cards).title]
              THEN ProcessCards(scraper, Tail(cards),
                                Append(jobs, PostingOf(scraper, Head(cards))))
              ELSE ProcessCards(scraper, Tail(cards), jobs)

\* The try block of one term on the page the site answers with: a page that
\* does not load in time raises before any card is read.
ProcessTerm(scraper, page, jobs) ==
    IF ~page.loads THEN [jobs |-> jobs, error |-> TRUE]
    ELSE ProcessCards(scraper,
                      SubSeq(page.cards, 1,
                             IF Len(page.cards) < CardCap THEN Len(page.cards) ELSE CardCap),
                      jobs)

\* The loop over the terms from term k on.
RECURSIVE SearchFrom(_, _, _, _)
SearchFrom(scraper, site, k, jobs) ==
    IF k > NumTerms THEN [raised |-> FALSE, jobs |-> jobs]
    ELSE LET r == ProcessTerm(scraper, site[k], jobs)
         IN  IF r.error /\ ~TermErrorCaught
             THEN [raised |-> TRUE, jobs |-> <<>>]
             ELSE SearchFrom(scraper, site, k + 1, r.jobs)

\* search_jobs (lines 175-210, 213-249, 252-283) against a site that answers
\* term k with page site[k]: whether it raises, and the list it returns.
search_jobs(scraper, site) == SearchFrom(scraper, site, 1, <<>>)

\* A page that loaded with `cards`, and a page that did not load.
Page(cards) == [loads |-> TRUE, cards |-> cards]
NoPage == [loads |-> FALSE, cards |-> <<>>]

\* The sites: `cards` spread in order over the NumTerms pages, cut after the
\* a-th and the b-th card; a page for which `loads` is false does not load.
SiteOf(cards, a, b, loads) ==
    << IF loads[1] THEN Page(SubSeq(cards, 1, a)) ELSE NoPage,
       IF loads[2] THEN Page(SubSeq(cards, a + 1, b)) ELSE NoPage,
       IF loads[3] THEN Page(SubSeq(cards, b + 1, Len(cards))) ELSE NoPage >>

\* search_jobs() called on scraper i against some site.
SearchJobs ==
    /\ shown = <<>> /\ found = <<>>
    /\ \E i \in DOMAIN Scrapers, cards \in BoundedSeq(Cards(Links), MaxCards),
          loads \in [1..NumTerms -> BOOLEAN] :
           \E a \in 0..Len(cards) : \E b \in a..Len(cards) :
               LET site == SiteOf(cards, a, b, loads)
                   r == search_jobs(Scrapers[i], site)
               IN  /\ shown' = <<site>>
                   /\ found' = <<[scraper |-> Scrapers[i], raised |-> r.raised,
                                  jobs |-> r.jobs]>>
    /\ UNCHANGED <<mgr_vars, save_vars, unit_vars, drv_vars, text_vars,
                   pc, runs, next_scraper, all_jobs, calls, res>>

NextScraper == SearchJobs

SpecScraper == Init /\ [][NextScraper]_vars

\* ------------------------------------------------- main and run_search
\* Where run_search continues when the step `at` of its try block raises:
\* `except Exception` (lines 322-323), then `finally` (line 325).
RaiseSkipsFinally(at) == "idle"
RaiseStartSwallowed(at) == IF at = "start_driver" THEN "connect" ELSE "close_driver"
RaiseConnectSwallowed(at) == IF at = "connect" THEN "search_jobs" ELSE "close_driver"
Raise(at) == "close_driver"

\* Where the for loop of lines 310-318 continues after scraper i returned or
\* raised: the inner except (lines 317-318) only logs.
AfterScraperAbortOnRaise(i, raised) ==
    IF raised THEN "close_driver"
    ELSE IF i < Len(Scrapers) THEN "search_jobs" ELSE "save_jobs"
AfterScraperSaveEarly(i, raised) == "save_jobs"
AfterScraper(i, raised) == IF i < Len(Scrapers) THEN "search_jobs" ELSE "save_jobs"

\* `all_jobs.extend(found_jobs)` (line 316)
Extend(jobs, found_jobs) == jobs \o found_jobs

\* What search_jobs of scraper i can return: up to MaxFound postings that
\* carry the scraper's source tag.
Findable(i) ==
    BoundedSeq([link : Links, source : {SourceOf(Scrapers[i])}], MaxFound)

\* main is one thread: line 361 and schedule.run_pending() (line 373) call
\* run_search synchronously, so main reaches them only while no run is going on.
MainAtCallThreaded == pc # "crashed"
MainAtCall == pc = "idle"

\* main calls orchestrator.run_search(): at startup (line 361) or from
\* schedule.run_pending() (line 373).  run_search enters its try block.
Trigger ==
    /\ MainAtCall
    /\ runs < MaxRuns
    /\ pc' = "start_driver"
    /\ runs' = runs + 1
    /\ driver' = 0
    /\ next_scraper' = 1
    /\ all_jobs' = <<>>
    /\ calls' = <<>>
    /\ found' = <<>>
    /\ res' = NoRes
    /\ batch' = <<>>
    /\ new_jobs' = <<>>
    /\ appended' = <<>>
    /\ links_before' = {}
    /\ rows_before' = <<>>
    /\ UNCHANGED <<mgr_vars, unit_vars, aux_vars, mgr_driver, started, live, quit_calls>>

\* driver = self.driver_manager.start_driver()  (line 299, lines 71-89)
StartDriver ==
    \E ok \in BOOLEAN :
        /\ pc = "start_driver"
        /\ calls' = Append(calls, "start_driver")
        /\ IF ok
           THEN /\ started' = started + 1
                /\ mgr_driver' = started + 1
                /\ driver' = started + 1
                /\ live' = live \cup {started + 1}
                /\ res' = [res EXCEPT !.start = "ok"]
                /\ pc' = "connect"
           ELSE /\ res' = [res EXCEPT !.start = "raised", !.critical = TRUE]
                /\ pc' = Raise("start_driver")
                /\ UNCHANGED <<started, mgr_driver, driver, live>>
        /\ UNCHANGED <<mgr_vars, save_vars, unit_vars, aux_vars, quit_calls, runs,
                       next_scraper, all_jobs, found>>

\* self.sheets_manager.connect()  (line 300, lines 104-127)
Connect ==
    \E o \in ConnectOutcomes :
        /\ pc = "connect"
        /\ connect(o)
        /\ calls' = Append(calls, "connect") \o ConnectCalls(o)
        /\ IF ConnectRaised(o)
           THEN /\ res' = [res EXCEPT !.connect = "raised", !.load = LoadResult(o),
                                      !.critical = TRUE]
                /\ pc' = Raise("connect")
           ELSE /\ res' = [res EXCEPT !.connect = "ok", !.load = "ok"]
                /\ pc' = "search_jobs"
        /\ UNCHANGED <<save_vars, unit_vars, aux_vars, drv_vars, runs, next_scraper,
                       all_jobs, found>>

\* One iteration of `for scraper in scrapers` (lines 310-318).
Scrape ==
    /\ pc = "search_jobs"
    /\ next_scraper <= Len(Scrapers)
    /\ calls' = Append(calls, Scrapers[next_scraper])
    /\ \/ \E found_jobs \in Findable(next_scraper) :
            /\ found' = Append(found, [scraper |-> Scrapers[next_scraper],
                                       raised |-> FALSE, jobs |-> found_jobs])
            /\ all_jobs' = Extend(all_jobs, found_jobs)
            /\ pc' = AfterScraper(next_scraper, FALSE)
       \/ /\ found' = Append(found, [scraper |-> Scrapers[next_scraper],
                                     raised |-> TRUE, jobs |-> <<>>])
          /\ all_jobs' = all_jobs
          /\ pc' = AfterScraper(next_scraper, TRUE)
    /\ next_scraper' = next_scraper + 1
    /\ UNCHANGED <<mgr_vars, save_vars, unit_vars, aux_vars, drv_vars, runs, res>>

\* self.sheets_manager.save_jobs(all_jobs)  (line 320, lines 129-144)
SaveJobs ==
    \E append_ok \in BOOLEAN :
        /\ pc = "save_jobs"
        /\ save_jobs(all_jobs, append_ok)
        /\ calls' = Append(calls, "save_jobs")
                      \o (IF new_jobs' # <<>> THEN <<"append_rows">> ELSE <<>>)
        /\ IF SaveRaised(all_jobs, append_ok)
           THEN /\ res' = [res EXCEPT !.save = "raised", !.critical = TRUE]
                /\ pc' = Raise("save_jobs")
           ELSE /\ append_ok
                /\ res' = [res EXCEPT !.save = "ok"]
                /\ pc' = "close_driver"
        /\ UNCHANGED <<unit_vars, aux_vars, drv_vars, runs, next_scraper, all_jobs, found>>

\* finally: self.driver_manager.close_driver()  (line 325, lines 91-95).
\* An exception of quit() leaves the finally block and run_search; nothing
\* in main catches it, so the process ends.
CloseDriver ==
    /\ pc = "close_driver"
    /\ IF mgr_driver # 0
       THEN /\ calls' = Append(calls, "quit")
            /\ quit_calls' = Append(quit_calls, mgr_driver)
            /\ \/ /\ live' = live \ {mgr_driver}
                  /\ res' = [res EXCEPT !.quit = "ok"]
                  /\ pc' = "idle"
               \/ /\ live' \in {live, live \ {mgr_driver}}
                  /\ res' = [res EXCEPT !.quit = "raised"]
                  /\ pc' = "crashed"
       ELSE /\ pc' = "idle"
            /\ UNCHANGED <<calls, quit_calls, live, res>>
    /\ UNCHANGED <<mgr_vars, save_vars, unit_vars, aux_vars, mgr_driver, started, driver,
                   runs, next_scraper, all_jobs, found>>

Next == Trigger \/ StartDriver \/ Connect \/ Scrape \/ SaveJobs \/ CloseDriver

Spec == Init /\ [][Next]_vars

\* ------------------------------------- one run with search_jobs in place
\* Most cards the sites show to the scrapers of one run.
MaxCandidates == 3

\* The cards that can be read (no field missing, no stale element).
ReadableCards == {c \in Cards(Links) : ~c.broken}

\* The number of cards on the pages of `sites`.
RECURSIVE NumShown(_)
NumShown(sites) ==
    IF sites = <<>> THEN 0
    ELSE Len(Head(sites)[1].cards) + NumShown(Tail(sites))

\* A site that answers the first term with `cards` and every later term
\* with a page without cards.
SiteShowing(cards) == [k \in 1..NumTerms |-> IF k = 1 THEN Page(cards) ELSE Page(<<>>)]

\* One iteration of `for scraper in scrapers` (lines 310-318), search_jobs
\* (lines 175-210, 213-249, 252-283) running against some site.
ScrapeSite ==
    /\ pc = "search_jobs"
    /\ next_scraper <= Len(Scrapers)
    /\ calls' = Append(calls, Scrapers[next_scraper])
    /\ \E cards \in BoundedSeq(ReadableCards, MaxCandidates - NumShown(shown)) :
          LET site == SiteShowing(cards)
              r == search_jobs(Scrapers[next_scraper], site)
          IN  /\ shown' = Append(shown, site)
              /\ found' = Append(found, [scraper |-> Scrapers[next_scraper],
                                         raised |-> r.raised, jobs |-> r.jobs])
              /\ all_jobs' = IF r.raised THEN all_jobs ELSE Extend(all_jobs, r.jobs)
              /\ pc' = AfterScraper(next_scraper, r.raised)
    /\ next_scraper' = next_scraper + 1
    /\ UNCHANGED <<mgr_vars, save_vars, unit_vars, text_vars, drv_vars, runs, res>>

\* The run main makes at startup (line 361).
StartupRun == runs = 0 /\ shown = <<>> /\ Trigger

NextE2E == StartupRun \/ StartDriver \/ Connect \/ ScrapeSite \/ SaveJobs \/ CloseDriver

SpecE2E == Init /\ [][NextE2E]_vars


\* ------------------------------------------------------------- properties
RunEnded == runs > 0 /\ pc \in {"idle", "crashed"}

\* The link cells of the rows of `rows` that have a link column.
LinkCells(rows) == {rows[i][6] : i \in {j \in DOMAIN rows : Len(rows[j]) >= 6}}

Min(S) == CHOOSE m \in S : \A n \in S : m <= n

ScraperNames == {Scrapers[i] : i \in DOMAIN Scrapers}

IsScraperCall(c) == c \in ScraperNames

RECURSIVE JobsOf(_)
JobsOf(results) ==
    IF results = <<>> THEN <<>>
    ELSE (IF Head(results).raised THEN <<>> ELSE Head(results).jobs)
             \o JobsOf(Tail(results))

\* C1: after every save_jobs call the staged rows carry pairwise different
\* links; a link of the batch that was not known before the call is staged
\* exactly once, by the row of its first candidate in batch order; a link
\* known before the call is not staged; what is persisted is exactly the
\* staged rows when the append succeeded (and nothing when it raised).
C1_WithinBatchDedup ==
    res.save # "none" =>
        /\ \A i, j \in DOMAIN new_jobs :
              i # j => new_jobs[i][6] # new_jobs[j][6]
        /\ \A l \in Links :
              LET occ == {k \in DOMAIN batch : batch[k].link = l}
                  staged == {i \in DOMAIN new_jobs : new_jobs[i][6] = l}
              IN  IF l \notin links_before /\ occ # {}
                  THEN /\ Cardinality(staged) = 1
                       /\ \A i \in staged : new_jobs[i][8] = batch[Min(occ)].source
                  ELSE staged = {}
        /\ appended = (IF res.save = "ok" THEN new_jobs ELSE <<>>)
        /\ store.rows = rows_before \o appended

\* C1 witness: a batch with two candidates sharing an unknown link was saved
\* and exactly one row with that link was appended.
C1_Witness ==
    /\ res.save = "ok"
    /\ \E l \in Links :
          /\ l \notin links_before
          /\ Cardinality({k \in DOMAIN batch : batch[k].link = l}) >= 2
          /\ Cardinality({i \in DOMAIN appended : appended[i][6] = l}) = 1

\* C2: a save_jobs call that repeats the batch of the save_jobs call right
\* before it stages no row, issues no append and leaves the sheet as it was.
C2_Idempotent ==
    repeat => /\ new_jobs = <<>>
              /\ appended = <<>>
              /\ store.rows = rows_before

\* C2 witness: the repeated call followed a call that staged rows.
C2_Witness == repeat /\ prev_new # <<>> /\ batch # <<>> /\ new_jobs = <<>>

\* C3: a failed append leaves the Known-Links Set as it was before the call,
\* and after every save_jobs call every known link is the link of a row
\* persisted in the sheet.
C3_SetFollowsStore ==
    /\ res.save = "raised" => existing_links = links_before
    /\ res.save # "none" => existing_links \subseteq LinkCells(store.rows)

\* C4: no step of the process removes a link from the Known-Links Set.
C4_NeverShrunk == [][existing_links \subseteq existing_links']_vars

\* C5: when a run has ended, quit() has been invoked on the driver acquired
\* in that run, and after a run whose release did not itself raise no driver
\* is live.
C5_Released ==
    /\ RunEnded /\ driver # 0 =>
          /\ quit_calls # <<>>
          /\ quit_calls[Len(quit_calls)] = driver
          /\ calls[Len(calls)] = "quit"
    /\ pc = "idle" => live = {}

\* C5 witness: a run that acquired a driver and failed in connect or in
\* save_jobs has ended with the driver released.
C5_Witness ==
    /\ RunEnded /\ pc = "idle" /\ driver # 0
    /\ res.connect = "raised" \/ res.save = "raised"
    /\ driver \notin live

\* C6: in a run whose start_driver raised, the only calls are start_driver
\* and the release: no store call, no save_jobs and no scraper call is made,
\* and the run is in cleanup or over.
C6_NoPersistenceAfterStartFailure ==
    res.start = "raised" =>
        /\ \A i \in DOMAIN calls : calls[i] \in {"start_driver", "quit"}
        /\ found = <<>>
        /\ res.connect = "none" /\ res.save = "none"
        /\ pc \in {"close_driver", "idle", "crashed"}

\* C6 witness: a run whose start_driver raised has ended.
C6_Witness == res.start = "raised" /\ RunEnded

\* C7: in a run whose connect raised (at any of its steps), the exception is
\* caught and logged, no scraper is invoked, save_jobs is not called and no
\* posting row is appended, the driver acquired is released, and the run
\* returns unless the release itself raises.
C7_ConnectFailureIsFatalForRun ==
    res.connect = "raised" =>
        /\ res.critical
        /\ found = <<>>
        /\ \A i \in DOMAIN calls :
              ~IsScraperCall(calls[i]) /\ calls[i] \notin {"save_jobs", "append_rows"}
        /\ pc \in {"close_driver", "idle", "crashed"}
        /\ RunEnded => /\ driver # 0
                       /\ quit_calls[Len(quit_calls)] = driver
                       /\ res.quit = "ok" => pc = "idle" /\ driver \notin live

\* C7 witness: a run whose connect raised while loading the links, after the
\* sheet was created, has returned.
C7_Witness ==
    /\ res.connect = "raised" /\ pc = "idle"
    /\ calls[Len(calls) - 1] = "get_all_values"

\* C8: once connect succeeded, the scrapers are invoked one after the other
\* in the configured order, each exactly once whatever the earlier ones did;
\* a scraper that raised contributes nothing, and save_jobs receives exactly
\* the postings of the scrapers that returned, in order.
C8_SourceIsolation ==
    res.connect = "ok" =>
        /\ Len(found) = next_scraper - 1
        /\ \A i \in DOMAIN found : found[i].scraper = Scrapers[i]
        /\ SelectSeq(calls, IsScraperCall) = SubSeq(Scrapers, 1, Len(found))
        /\ all_jobs = JobsOf(found)
        /\ pc # "search_jobs" =>
              /\ Len(found) = Len(Scrapers)
              /\ pc \in {"save_jobs", "close_driver", "idle", "crashed"}
        /\ pc \in {"close_driver", "idle", "crashed"} =>
              /\ res.save # "none"
              /\ batch = JobsOf(found)

\* C8 witness: the second scraper raised, the first and the third returned
\* postings, and save_jobs received both.
C8_Witness ==
    /\ res.save # "none"
    /\ Len(found) = 3
    /\ found[2].raised
    /\ found[1].jobs # <<>> /\ found[3].jobs # <<>>
    /\ batch = found[1].jobs \o found[3].jobs

\* C9: no exception leaves run_search: the process never ends because of a
\* run.
C9_NoEscape == pc # "crashed"

\* C10: _load_existing_links never raises, and after it loaded a table with
\* data rows the Known-Links Set holds exactly the link cell of every data
\* row that has a link column; rows with fewer cells add nothing.
C10_LoadToleratesShortRows ==
    /\ res.load # "raised"
    /\ (res.load = "ok" /\ pc = "search_jobs" /\ Len(store.rows) > 1) =>
          existing_links =
              {store.rows[i][6] :
                  i \in {j \in 2..Len(store.rows) : Len(store.rows[j]) >= 6}}

\* C10 witness: a table with a short data row and a well-formed one loaded.
C10_Witness ==
    /\ res.load = "ok" /\ pc = "search_jobs"
    /\ \E i, j \in 2..Len(store.rows) :
          /\ Len(store.rows[i]) <= 5
          /\ Len(store.rows[j]) >= 6
          /\ store.rows[j][6] \in existing_links


\* C12: in every run save_jobs is called at most once and append_rows at
\* most once; save_jobs is called only after start_driver and connect
\* succeeded and after every configured scraper was invoked and finished,
\* and append_rows only from within that save_jobs call.
C12_SingleSavePass ==
    LET saves == {i \in DOMAIN calls : calls[i] = "save_jobs"}
        appends == {i \in DOMAIN calls : calls[i] = "append_rows"}
        scrapes == {i \in DOMAIN calls : IsScraperCall(calls[i])}
    IN  /\ Cardinality(saves) <= 1
        /\ Cardinality(appends) <= 1
        /\ \A a \in appends : a - 1 \in saves
        /\ \A s \in saves :
              /\ res.start = "ok" /\ res.connect = "ok"
              /\ Len(found) = Len(Scrapers)
              /\ Cardinality(scrapes) = Len(Scrapers)
              /\ \A k \in scrapes : k < s
              /\ \E c \in 1..(s - 1) : calls[c] = "connect" /\ calls[1] = "start_driver"

\* C12 witness: a run called save_jobs with postings of several scrapers and
\* issued its one append.
C12_Witness ==
    /\ RunEnded /\ res.save = "ok"
    /\ Len(batch) >= 2
    /\ calls[Len(calls) - 1] = "append_rows"

\* C17: a run starts only when no run is in progress and no driver is live,
\* and at no moment is more than one driver live.
C17_ExclusiveFetcher ==
    /\ [](Cardinality(live) <= 1)
    /\ [][runs' # runs => (pc = "idle" /\ live = {})]_vars

\* C17 witness: a second run is in progress with its own live driver, after
\* the first run's driver was quit.
C17_Witness == runs = 2 /\ live = {2} /\ quit_calls = <<1>> /\ pc = "search_jobs"

\* C18: after every successful connect the Known-Links Set is exactly the
\* set of link cells of the data rows (the rows after the first) that have a
\* link column.
C18_SetEqualsStoreAfterConnect ==
    (res.connect = "ok" /\ pc = "search_jobs") =>
        existing_links =
            {store.rows[i][6] :
                i \in {j \in 2..Len(store.rows) : Len(store.rows[j]) >= 6}}

\* C19: no two persisted rows carry the same link.
C19_PersistedLinksUnique ==
    \A i, j \in DOMAIN store.rows :
        (i # j /\ Len(store.rows[i]) >= 6 /\ Len(store.rows[j]) >= 6)
            => store.rows[i][6] # store.rows[j][6]

\* C20: quit() is invoked only on the driver acquired in the current run, on
\* no driver twice, and not at all in a run whose start_driver raised.
C20_ReleaseMatchesAcquisition ==
    /\ \A i, j \in DOMAIN quit_calls : i # j => quit_calls[i] # quit_calls[j]
    /\ res.quit # "none" => quit_calls[Len(quit_calls)] = driver
    /\ res.start = "raised" => \A i \in DOMAIN calls : calls[i] # "quit"


\* Whether two characters are the same letter up to case.
SameLetter(a, b) ==
    \/ a = b
    \/ \E i \in DOMAIN UpperLetters :
          {a, b} = {UpperLetters[i], LowerLetters[i]}

\* Whether `phrase` occurs in `str` compared case-insensitively.
OccursIn(phrase, str) ==
    \E off \in 0..(Len(str) - Len(phrase)) :
        \A k \in 1..Len(phrase) : SameLetter(str[off + k], phrase[k])

HasExclusion(str) == \E i \in DOMAIN EXCLUDE_TERMS : OccursIn(EXCLUDE_TERMS[i], str)
HasJunior(str) == \E i \in DOMAIN EXPERIENCE_LEVELS : OccursIn(EXPERIENCE_LEVELS[i], str)

\* C13: is_relevant_job returns False for every title in which an exclusion
\* phrase occurs, compared case-insensitively, whatever else it contains.
C13_ExclusionWins ==
    (text_op = "is_relevant_job" /\ HasExclusion(text_in)) => ~relevant

\* C13 witness: a title with a junior phrase and a capitalised exclusion
\* phrase was rejected.
C13_Witness ==
    /\ text_op = "is_relevant_job"
    /\ HasJunior(text_in) /\ HasExclusion(text_in)
    /\ ~AnyIn(EXCLUDE_TERMS, text_in)
    /\ ~relevant

\* C14: is_relevant_job returns True for every title in which no exclusion
\* phrase occurs, with or without a junior/entry phrase.
C14_PermissiveDefault ==
    (text_op = "is_relevant_job" /\ ~HasExclusion(text_in)) => relevant

\* C14 witness: a non-empty title with neither an exclusion phrase nor a
\* junior phrase was accepted.
C14_Witness ==
    /\ text_op = "is_relevant_job"
    /\ text_in # <<>>
    /\ ~HasExclusion(text_in) /\ ~HasJunior(text_in)
    /\ relevant

\* C15: extract_languages returns the tags of the term groups of which a
\* term occurs in the text (English before German), and the single tag
\* 'Not specified' exactly when no group matched; the result is never empty.
C15_LanguagesOrSentinel ==
    text_op = "extract_languages" =>
        LET eng == \E i \in DOMAIN patterns[1].terms : OccursIn(patterns[1].terms[i], text_in)
            ger == \E i \in DOMAIN patterns[2].terms : OccursIn(patterns[2].terms[i], text_in)
        IN  /\ languages # <<>>
            /\ languages = (IF eng THEN <<"English">> ELSE <<>>)
                              \o (IF ger THEN <<"German">> ELSE <<>>)
                              \o (IF ~eng /\ ~ger THEN <<"Not specified">> ELSE <<>>)

\* C15 witness: a text without language term got the sentinel alone.
C15_Witness ==
    /\ text_op = "extract_languages"
    /\ text_in # <<>>
    /\ languages = <<"Not specified">>


\* The cards of a site in page order, each with the page it is on.
RECURSIVE CardsFrom(_, _)
CardsFrom(site, k) ==
    IF k > Len(site) THEN <<>>
    ELSE [j \in 1..Len(site[k].cards) |-> [page |-> k, card |-> site[k].cards[j]]]
            \o CardsFrom(site, k + 1)

\* The card titles in which an exclusion phrase occurs.
ExcludedTitles == {title \in CardTitles : HasExclusion(title)}

\* A card that yields a posting: its page loaded, its fields can be read and
\* no exclusion phrase occurs in its title.
GoodCard(site, e) ==
    /\ site[e.page].loads
    /\ ~e.card.broken
    /\ e.card.title \notin ExcludedTitles

\* C16: search_jobs does not raise, and it returns, in page order, exactly
\* one posting for every card that is on a page that loaded, can be read and
\* has a relevant title: a card that cannot be read and a page that does not
\* load take nothing away from the other cards and the other terms.
C16_ExtractorIsolation ==
    shown # <<>> /\ found # <<>> /\ pc = "idle" /\ runs = 0 =>
        LET site == shown[1]
            good == SelectSeq(CardsFrom(site, 1), LAMBDA e : GoodCard(site, e))
        IN  /\ ~found[1].raised
            /\ Len(found[1].jobs) = Len(good)
            /\ \A n \in DOMAIN good :
                  /\ found[1].jobs[n].link = good[n].card.link
                  /\ found[1].jobs[n].source = SourceOf(found[1].scraper)

\* C16 witness: the page of the first term did not load, on a later page a
\* card that cannot be read came before a good one, and the good one's
\* posting was returned.
C16_Witness ==
    /\ shown # <<>> /\ found # <<>> /\ runs = 0
    /\ ~shown[1][1].loads
    /\ \E k \in 2..NumTerms :
          /\ Len(shown[1][k].cards) = 2
          /\ shown[1][k].cards[1].broken
          /\ ~shown[1][k].cards[2].broken
          /\ shown[1][k].cards[2].title = RelevantTitle
    /\ Len(found[1].jobs) = 1

\* The relevant cards among `cards`: those without exclusion phrase in the title.
RelevantCards(cards) == SelectSeq(cards, LAMBDA c : c.title \notin ExcludedTitles)

\* The links of the relevant cards on the pages of `sites`.
RECURSIVE RelevantLinks(_)
RelevantLinks(sites) ==
    IF sites = <<>> THEN {}
    ELSE {e.card.link : e \in {CardsFrom(Head(sites), 1)[n] :
                                  n \in {m \in DOMAIN CardsFrom(Head(sites), 1) :
                                            GoodCard(Head(sites),
                                                     CardsFrom(Head(sites), 1)[m])}}}
             \cup RelevantLinks(Tail(sites))

\* One scraper was shown three cards, two of them relevant and with different
\* links, one excluded by its title; the other scrapers were shown none; one
\* of the two relevant links was known when save_jobs was called.
ThreeCandidates ==
    /\ Len(shown) = Len(Scrapers)
    /\ NumShown(shown) = 3
    /\ \E k \in DOMAIN shown :
          LET cards == shown[k][1].cards
              rel == RelevantCards(cards)
          IN  /\ Len(cards) = 3
              /\ Len(rel) = 2
              /\ rel[1].link # rel[2].link
              /\ Cardinality(links_before \cap {rel[1].link, rel[2].link}) = 1

====
